---- MODULE Spec2Model ----
(***************************************************************************)
(* Social recovery of a wallet's Nostr secret key (nsec), as implemented   *)
(* in src/src/services/recovery_service.rs:                                *)
(*   initiate_recovery_request  splits the nsec 3-of-5 and sends one       *)
(*                              NIP-04 encrypted share per helper;         *)
(*   submit_recovery_share      decrypts a helper's share, HSETs it in the *)
(*                              Redis hash recovery:<wallet>:shares, reads *)
(*                              the hash back with HVALS and, when it     *)
(*                              holds 3 or more values, reconstructs the   *)
(*                              nsec, logs it and DELs the hash.           *)
(* A submit call awaits Redis three times (HSET, HVALS, DEL); calls of     *)
(* different requests interleave at those points. Everything a call does   *)
(* before its HSET is local, so it is one step with the HSET; so is what   *)
(* it does between HVALS and DEL. initiate touches neither Redis nor any   *)
(* state a submit call reads and is one step.                              *)
(*                                                                         *)
(* The nsec is one byte of a field of FieldP elements, a share is the two  *)
(* bytes <<index, value>>. Failures of the Redis connection itself are not *)
(* modelled. The variables initiated, createdAt, submittedAs and now, and  *)
(* the fields branch and late of a response, record what the claims speak  *)
(* about; the code neither keeps nor reads them.                           *)
(*                                                                         *)
(* The module also holds the Breez and Paystack webhooks                   *)
(* (src/src/services/fiat_service.rs), the admin's manual release          *)
(* (src/src/services/admin_service.rs), the USSD menu                      *)
(* (src/src/services/ussd_service.rs) and the creation of a wallet         *)
(* (src/src/api/wallet.rs), each under specifications of its own: they     *)
(* share the database and Redis with nothing of the recovery.              *)
(* The variable credited, the field prompt of a session value and the      *)
(* fields state, text and prompt of a send record what the claims speak    *)
(* about.                                                                  *)
(***************************************************************************)
EXTENDS Integers, Sequences, FiniteSets, TLC

VARIABLES
    redis,        \* [wallet -> hash], hash = function from field string to hex value
    calls,        \* in-flight submit_recovery_share calls, by task slot
    relay,        \* direct messages published by send_dm
    log,          \* [wallet -> sequence of nsecs displayed by the log line 154]
    response,     \* what the most recent finished call returned
    initiated,    \* [wallet -> number of initiate calls that returned Ok]
    createdAt,    \* [wallet -> clock value at the last Ok initiate, or Never]
    submittedAs,  \* [wallet -> the key strings under which a share was ever stored]
    nRequests,    \* number of requests received so far
    nSplits,      \* number of splits made so far
    now,          \* wall clock
    codec,        \* a split / reconstruct round trip on its own
    transactions, \* the table transactions: [id -> row or NoTx]
    balance_sats, \* the column wallets.balance_sats: [wallet -> sats]
    fiat_onramp_webhooks, \* the table fiat_onramp_webhooks: [id -> row or NoHook]
    tasks,        \* in-flight webhook and admin calls, by task slot
    payments,     \* what BreezService::send_payment has sent, in order
    credited,     \* [transaction id -> number of balance credits made for it]
    nCalls,       \* number of webhook, admin and USSD requests received so far
    outcome,      \* what the most recent finished webhook, admin or USSD call returned
    sessions,     \* the Redis keys ussd:session:<id>: [session id -> value]
    ussd,         \* in-flight handle_ussd_request calls, by task slot
    sends,        \* the sends ussd_send_bitcoin has made, in order
    wallet_rows,  \* the rows create_lightning_wallet has inserted into wallets, in order
    creating,     \* in-flight create_wallet_handler calls, by task slot
    created       \* what the finished create_wallet_handler calls returned, in order

recoveryVars == <<redis, calls, relay, log, response, initiated, createdAt,
                  submittedAs, nRequests, nSplits, now, codec>>

ledgerVars == <<transactions, balance_sats, fiat_onramp_webhooks, tasks, payments,
                credited, nCalls, outcome>>

ussdVars == <<sessions, ussd, sends>>

walletVars == <<wallet_rows, creating, created>>

vars == <<redis, calls, relay, log, response, initiated, createdAt,
          submittedAs, nRequests, nSplits, now, codec,
          transactions, balance_sats, fiat_onramp_webhooks, tasks, payments,
          credited, nCalls, outcome, sessions, ussd, sends,
          wallet_rows, creating, created>>

----------------------------------------------------------------------------
(* Bounds of the model *)

MaxInFlight == 2      \* concurrent submit tasks
MaxRequests == 5      \* requests (initiate and submit) in one behaviour
MaxTime == 1          \* last clock value
MaxShares == 4        \* largest n of a round trip on its own
MaxCalls == 4         \* webhook and admin requests in one behaviour
MaxDials == 5         \* USSD requests in one behaviour
MaxSends == 3         \* calls of ussd_send_bitcoin on its own in one behaviour
MaxCreates == 4       \* create-wallet requests in one behaviour
MaxConfirms == 3      \* concurrent USSD requests of a session that awaits its amount

(* Program constants *)

Threshold == 3        \* shares needed: split_secret(_, 3, 5) and len() >= 3
TotalShares == 5      \* shares produced by split_secret(_, 3, 5)

(* The prime field the model's Shamir arithmetic runs in (the scheme of    *)
(* the spec's SecretCodec; the real field has 256 elements).               *)
FieldP == 7

(* The session lifetime T of the spec; the code sets no lifetime.          *)
SessionTTL == 1

----------------------------------------------------------------------------
(* Values *)

Wallets == {"w1", "w2"}
Helpers == {"h1", "h2", "h3", "h4", "h5", "h6"}
Never == -1
NonHex == 16                      \* a character that is no hex digit
Sabi == "sabi_nostr_nsec"          \* the coordinator key of the configuration

Ok(v) == [ok |-> TRUE, val |-> v]
Err(e) == [ok |-> FALSE, err |-> e]

(* The table encrypted_nostr_nsecs: w1 has a row, w2 has none. The nsec is *)
(* one byte of the model's field.                                          *)
NoRow == 0
encrypted_nostr_nsecs == [w \in Wallets |-> IF w = "w1" THEN 3 ELSE NoRow]

(* Lines 39-46 with a lookup that makes up a row where there is none. *)
fetch_one_or_default(wallet_id) ==
    Ok(IF encrypted_nostr_nsecs[wallet_id] = NoRow THEN 1
       ELSE encrypted_nostr_nsecs[wallet_id])

(* Lines 39-46: fetch_one fails when the wallet has no row. *)
fetch_one(wallet_id) ==
    IF encrypted_nostr_nsecs[wallet_id] = NoRow THEN Err("NotFound")
    ELSE Ok(encrypted_nostr_nsecs[wallet_id])

(* Uuid::parse_str: the wallet ids are the well-formed strings. *)
InvalidId == "not-a-uuid"
Uuid_parse_str(s) == IF s \in Wallets THEN Ok(s) ELSE Err("BadRequest")

(* Textual forms of a helper's public key. bech32 is case-insensitive: the *)
(* all-lowercase and the all-uppercase string decode to the same key.      *)
Npub(h) == [key |-> h, upper |-> FALSE]
NPUB(h) == [key |-> h, upper |-> TRUE]
InvalidNpub == [key |-> "none", upper |-> FALSE]
from_bech32(s) == IF s.key \in Helpers THEN Ok(s.key) ELSE Err("BadRequest")

----------------------------------------------------------------------------
(* hex::encode / hex::decode on byte sequences; a string is a sequence of  *)
(* characters, a hex digit is its value 0..15.                             *)

hex_encode(bytes) ==
    [i \in 1..(2 * Len(bytes)) |->
        IF i % 2 = 1 THEN bytes[(i + 1) \div 2] \div 16
                     ELSE bytes[i \div 2] % 16]

(* A decoder that takes the two digits of a byte in the wrong order. *)
hex_decode_swapped(str) ==
    IF Len(str) % 2 = 1 \/ \E i \in 1..Len(str) : str[i] \notin 0..15
    THEN Err("InvalidHex")
    ELSE Ok([i \in 1..(Len(str) \div 2) |-> 16 * str[2 * i] + str[2 * i - 1]])

hex_decode(str) ==
    IF Len(str) % 2 = 1 \/ \E i \in 1..Len(str) : str[i] \notin 0..15
    THEN Err("InvalidHex")
    ELSE Ok([i \in 1..(Len(str) \div 2) |-> 16 * str[2 * i - 1] + str[2 * i]])

----------------------------------------------------------------------------
(* NIP-04: AES-256-CBC under the ECDH key of the two parties, the content *)
(* is the ciphertext and the initialisation vector; nothing authenticates *)
(* either. An envelope holds the key it is bound to, the text, whether    *)
(* the ciphertext is as the sender made it, and iv: 0 for the vector the  *)
(* sender drew, p for that vector with the low bit of its byte p flipped. *)

nip04_encrypt(sk, pk, text) == [key |-> {sk, pk}, iv |-> 0, intact |-> TRUE, text |-> text]

(* The character whose code differs in the low bit: '0'/'1' ... '8'/'9',  *)
(* 'b'/'c', 'd'/'e'; 'a' and 'f' turn into characters that are no digits. *)
FlipLowBit(ch) ==
    IF ch < 10 THEN (IF ch % 2 = 0 THEN ch + 1 ELSE ch - 1)
    ELSE IF ch \in {11, 13} THEN ch + 1
    ELSE IF ch \in {12, 14} THEN ch - 1
    ELSE NonHex

(* Decryption fails on another key and on a ciphertext that was changed   *)
(* (a block of it decrypts to bytes that are no text). CBC adds the       *)
(* vector to the first block after decrypting it: a bit flipped in the    *)
(* vector is the same bit flipped in the text.                            *)
nip04_decrypt(sk, pk, content) ==
    IF content.key # {sk, pk} \/ ~content.intact THEN Err("Decrypt")
    ELSE IF content.iv = 0 THEN Ok(content.text)
    ELSE Ok([content.text EXCEPT ![content.iv] = FlipLowBit(@)])

(* An envelope that decrypts under no key of the model. *)
Garbled == [key |-> {"nobody"}, iv |-> 0, intact |-> TRUE, text |-> <<>>]

----------------------------------------------------------------------------
(* Shamir secret sharing over the field of FieldP elements. A share is the *)
(* byte sequence <<x, y>>: its index x and the polynomial's value at x.    *)

SeqSum(f, n) == LET RECURSIVE go(_)
                    go(i) == IF i = 0 THEN 0 ELSE f[i] + go(i - 1)
                IN go(n)

SeqProd(f, n) == LET RECURSIVE go(_)
                     go(i) == IF i = 0 THEN 1 ELSE f[i] * go(i - 1)
                 IN go(n)

Pow(x, e) == SeqProd([i \in 1..e |-> x], e)

FieldInv(a) == CHOOSE b \in 1..(FieldP - 1) : (a * b) % FieldP = 1

(* The polynomial secret + rnd[1]*x + ... + rnd[k-1]*x^(k-1) at x. *)
PolyAt(secret, rnd, x) ==
    (secret + SeqSum([j \in 1..Len(rnd) |-> rnd[j] * Pow(x, j)], Len(rnd))) % FieldP

(* shamir::split_secret(secret, k, n) with the k-1 coefficients rnd it    *)
(* draws: the n shares, the i-th with index i.                            *)
split_secret(secret, k, n, rnd) ==
    IF k > n \/ k < 1 THEN Err("InvalidThreshold")
    ELSE Ok([i \in 1..n |-> <<i, PolyAt(secret[1], rnd, i)>>])

WellFormedShare(sh) == Len(sh) = 2 /\ sh[1] \in 1..(FieldP - 1) /\ sh[2] \in 0..(FieldP - 1)

(* The Lagrange basis polynomial of share j at 0. *)
LagrangeAt0(shares, j) ==
    SeqProd([m \in 1..Len(shares) |->
                IF m = j THEN 1
                ELSE (shares[m][1] * FieldInv((shares[m][1] - shares[j][1]) % FieldP)) % FieldP],
            Len(shares)) % FieldP

(* shamir::reconstruct_secret(shares): interpolation at 0 through all the *)
(* shares given; an error on no share, a malformed share or a repeated    *)
(* index. It has no means to tell shares of different splits apart.       *)
reconstruct_secret(shares) ==
    IF \/ Len(shares) = 0
       \/ \E i \in 1..Len(shares) : ~WellFormedShare(shares[i])
       \/ \E i, j \in 1..Len(shares) : i # j /\ shares[i][1] = shares[j][1]
    THEN Err("Reconstruct")
    ELSE Ok(<<SeqSum([j \in 1..Len(shares) |-> shares[j][2] * LagrangeAt0(shares, j)],
                     Len(shares)) % FieldP>>)

(* SecretKey::from_slice: zero is no secret key. *)
SecretKey_from_slice(bytes) ==
    IF Len(bytes) = 1 /\ bytes[1] \in 1..(FieldP - 1) THEN Ok(bytes[1]) ELSE Err("InvalidKey")

(* The coefficients the splits draw: every split draws afresh, the n-th   *)
(* split of a behaviour draws Randomness[n].                              *)
Randomness ==
    <<<<1, 2>>, <<4, 6>>, <<5, 3>>, <<2, 2>>, <<3, 1>>, <<6, 5>>, <<1, 4>>, <<2, 6>>>>

----------------------------------------------------------------------------
(* Redis hashes. A hash maps each field to its value or to Nil (absent);  *)
(* HVALS lists the values of the present fields, here in FieldOrder: the  *)
(* reconstruction does not depend on the order.                           *)

Nil == <<-1>>
FieldOrder == <<Npub("h1"), Npub("h2"), Npub("h3"), Npub("h4"), NPUB("h1")>>
Fields == {FieldOrder[i] : i \in 1..Len(FieldOrder)}
EmptyHash == [f \in Fields |-> Nil]

HSet(hash, field, value) == [hash EXCEPT ![field] = value]

HKeys(hash) == {f \in Fields : hash[f] # Nil}

HVals(hash) ==
    LET RECURSIVE go(_)
        go(i) == IF i = 0 THEN <<>>
                 ELSE IF hash[FieldOrder[i]] = Nil THEN go(i - 1)
                 ELSE Append(go(i - 1), hash[FieldOrder[i]])
    IN go(Len(FieldOrder))

----------------------------------------------------------------------------
(* State *)

(* A key that leaves the wallet out. *)
redis_key_shared(wallet_id) == "w1"

(* Line 125: the key of a wallet's hash holds the wallet's id. *)
redis_key(wallet_id) == wallet_id

Idle == [pc |-> "idle"]
NoResponse == [op |-> "none", result |-> "none"]

WalletKey(w) == "nsec_" \o w     \* the key pair made of the wallet's nsec

CodecOff == [pc |-> "off"]

(* The tables and the Breez node before any request. *)
TxIds == 1..MaxCalls        \* the ids Uuid::new_v4 draws for transactions, in order
HookIds == 1..MaxCalls      \* the ids Uuid::new_v4 draws for webhook records, in order

NoTx == [status |-> "none"]
NoHook == [event_id |-> "none"]

InitLedger(balances) ==
    /\ transactions = [id \in TxIds |-> NoTx]
    /\ balance_sats = balances
    /\ fiat_onramp_webhooks = [id \in HookIds |-> NoHook]
    /\ tasks = [c \in 1..MaxInFlight |-> Idle]
    /\ payments = <<>>
    /\ credited = [id \in TxIds |-> 0]
    /\ nCalls = 0
    /\ outcome = NoResponse

(* Redis holds no USSD session and no USSD request is in flight. *)
SessionIds == {"s1"}
Absent == [type |-> "none"]

InitUssd ==
    /\ sessions = [sid \in SessionIds |-> Absent]
    /\ ussd = [c \in 1..MaxInFlight |-> Idle]
    /\ sends = <<>>

InitRecovery ==
    /\ redis = [w \in Wallets |-> EmptyHash]
    /\ calls = [c \in 1..MaxInFlight |-> Idle]
    /\ relay = {}
    /\ log = [w \in Wallets |-> <<>>]
    /\ response = NoResponse
    /\ initiated = [w \in Wallets |-> 0]
    /\ createdAt = [w \in Wallets |-> Never]
    /\ submittedAs = [w \in Wallets |-> {}]
    /\ nRequests = 0
    /\ nSplits = 0
    /\ now = 0

(* No user has created a wallet and no create request is in flight. *)
InitWallets ==
    /\ wallet_rows = <<>>
    /\ creating = [c \in 1..MaxInFlight |-> Idle]
    /\ created = <<>>

InitProgram ==
    /\ InitRecovery
    /\ InitLedger([w \in Wallets |-> 0])
    /\ InitUssd
    /\ InitWallets

Init == InitProgram /\ codec = CodecOff

----------------------------------------------------------------------------
(* initiate_recovery_request(wallet_id_str, helper_npubs). failAt is the  *)
(* helper whose send_dm fails (0: every send succeeds).                   *)

(* The helper whose send_dm fails in an initiate call: none, or the third. *)
SendFailures == {0, 3}

HelperLists == {<<Npub("h1"), Npub("h2"), Npub("h3"), Npub("h4"), Npub("h5")>>}

(* Helper lists of other lengths. *)
HelperListsAny ==
    HelperLists \cup
        {<<Npub("h1"), Npub("h2")>>,
         <<Npub("h1"), Npub("h2"), Npub("h3"), Npub("h4"), Npub("h5"), Npub("h6")>>}

(* The five helpers in another order. *)
HelperListsReordered ==
    HelperLists \cup {<<Npub("h2"), Npub("h1"), Npub("h3"), Npub("h4"), Npub("h5")>>}

(* The direct message send_dm publishes for helper pk: new_encrypted_     *)
(* direct_msg encrypts the already encrypted share once more.             *)
DirectMessage(w, pk, share) ==
    LET keys == WalletKey(w)
        encrypted_share == nip04_encrypt(keys, pk, hex_encode(share))
    IN [author |-> keys, to |-> pk, content |-> nip04_encrypt(keys, pk, encrypted_share)]

(* The outcome of the loop over the helpers at position i, or "next".     *)
LoopStep(npubs, i, failAt) ==
    IF ~from_bech32(npubs[i]).ok THEN "BadRequest"
    ELSE IF i > TotalShares THEN "Panic"          \* shares[i] out of bounds
    ELSE IF i = failAt THEN "Internal"             \* send_dm failed
    ELSE "next"

(* The first position at which the loop stops, Len + 1 when it runs out. *)
LoopStop(npubs, failAt) ==
    LET stops == {i \in 1..Len(npubs) : LoopStep(npubs, i, failAt) # "next"}
    IN IF stops = {} THEN Len(npubs) + 1
       ELSE CHOOSE i \in stops : \A j \in stops : i <= j

Initiate(wallet_id_str, helper_npubs, failAt) ==
    /\ UNCHANGED <<ledgerVars, ussdVars, walletVars>>
    /\ nRequests < MaxRequests
    /\ nRequests' = nRequests + 1
    /\ UNCHANGED <<redis, calls, log, submittedAs, now, codec>>
    /\ LET id == Uuid_parse_str(wallet_id_str)
           reply(r, sent) ==
               [op |-> "initiate", result |-> r, wallet_id |-> wallet_id_str,
                helper_npubs |-> helper_npubs, sent |-> sent]
       IN IF ~id.ok
          THEN /\ response' = reply("BadRequest", 0)
               /\ UNCHANGED <<relay, initiated, createdAt, nSplits>>
          ELSE IF ~fetch_one(id.val).ok
          THEN /\ response' = reply("NotFound", 0)
               /\ UNCHANGED <<relay, initiated, createdAt, nSplits>>
          ELSE LET w == id.val
                   rnd == Randomness[nSplits + 1]
                   shares == split_secret(<<fetch_one(w).val>>, Threshold, TotalShares, rnd)
                   stop == LoopStop(helper_npubs, failAt)
                   result == IF stop > Len(helper_npubs) THEN "Ok"
                             ELSE LoopStep(helper_npubs, stop, failAt)
               IN IF ~shares.ok
                  THEN /\ response' = reply("Internal", 0)
                       /\ UNCHANGED <<relay, initiated, createdAt, nSplits>>
                  ELSE /\ nSplits' = nSplits + 1
                       /\ relay' = relay \cup
                             {DirectMessage(w, from_bech32(helper_npubs[i]).val, shares.val[i]) :
                                 i \in 1..(stop - 1)}
                       /\ response' = reply(result, stop - 1)
                       /\ initiated' = [initiated EXCEPT ![w] =
                                            @ + (IF result = "Ok" THEN 1 ELSE 0)]
                       /\ createdAt' = [createdAt EXCEPT ![w] =
                                            IF result = "Ok" THEN now ELSE @]

----------------------------------------------------------------------------
(* What a helper can put into the share it submits: a share it was sent   *)
(* (it opens both layers of the direct message) or text that is no hex.   *)

NotHexText == <<NonHex, 1>>

ReceivedTexts(w, h) ==
    {nip04_decrypt(h, WalletKey(w), nip04_decrypt(h, WalletKey(w), m.content).val).val :
        m \in {d \in relay : d.to = h /\ d.author = WalletKey(w)}}

HelperTexts(w, h) == ReceivedTexts(w, h) \cup {NotHexText}

(* The envelopes a request may carry in the name of helper h. *)
Envelopes(w, h) == {nip04_encrypt(h, Sabi, t) : t \in HelperTexts(w, h)} \cup {Garbled}

NpubStrings == Fields \cup {InvalidNpub}

(* An envelope on its way to the coordinator with one bit flipped: in the *)
(* initialisation vector, at one of TamperPositions, or in the ciphertext.*)
TamperPositions == {1, 4}

FlipIvBit(e, p) == [e EXCEPT !.iv = p]

FlipBodyBit(e) == [e EXCEPT !.intact = FALSE]

TamperedEnvelopes(w, h) ==
    LET sent == {nip04_encrypt(h, Sabi, t) : t \in ReceivedTexts(w, h)}
    IN {FlipIvBit(e, p) : e \in sent, p \in TamperPositions} \cup
       {FlipBodyBit(e) : e \in sent}

(* The spec's session of w has outlived its lifetime. *)
Expired(w) == createdAt[w] # Never /\ now - createdAt[w] >= SessionTTL

(* A request that arrives after the lifetime ran out below the threshold. *)
LateArrival(w) ==
    Expired(w) /\ log[w] = <<>> /\ Cardinality(HKeys(redis[w])) < Threshold

AllIdle == \A c \in 1..MaxInFlight : calls[c] = Idle

----------------------------------------------------------------------------
(* submit_recovery_share(wallet_id_str, encrypted_share, helper_pubkey_str)*)
(* A response holds the result the caller gets and, for the claims, the   *)
(* branch the call took and whether it arrived late.                      *)

Reply(result, msg, branch, late) ==
    [op |-> "submit", result |-> result, msg |-> msg, branch |-> branch, late |-> late]

(* What submit_share_handler hands to the caller: lines 86-89 on Ok, the   *)
(* error's message otherwise.                                             *)
SubmitShareResponse(r) == [success |-> r.result = "Ok", message |-> r.msg]

(* Lines 102-128: the parsing, the decryption and the HSET. This variant  *)
(* writes the payload to the hash before it decrypts it.                  *)
SubmitStoreEager(c, wallet_id_str, encrypted_share, helper_pubkey_str) ==
    /\ UNCHANGED <<ledgerVars, ussdVars, walletVars>>
    /\ calls[c] = Idle
    /\ \A d \in 1..(c - 1) : calls[d] # Idle
    /\ nRequests < MaxRequests
    /\ nRequests' = nRequests + 1
    /\ UNCHANGED <<relay, log, initiated, createdAt, nSplits, now, codec>>
    /\ LET id == Uuid_parse_str(wallet_id_str)
           helper_pubkey == from_bech32(helper_pubkey_str)
       IN IF ~id.ok \/ ~helper_pubkey.ok
          THEN /\ response' = Reply("BadRequest", "Invalid wallet ID or helper pubkey", "none", FALSE)
               /\ UNCHANGED <<redis, calls, submittedAs>>
          ELSE LET decrypted_share_hex == nip04_decrypt(Sabi, helper_pubkey.val, encrypted_share)
               IN /\ redis' = [redis EXCEPT ![redis_key(id.val)] =
                                  HSet(@, helper_pubkey_str, encrypted_share.text)]
                  /\ submittedAs' = [submittedAs EXCEPT ![id.val] = @ \cup {helper_pubkey_str}]
                  /\ IF ~decrypted_share_hex.ok
                     THEN /\ response' = Reply("BadRequest", "Failed to decrypt share", "none",
                                               LateArrival(id.val))
                          /\ UNCHANGED calls
                     ELSE /\ calls' = [calls EXCEPT ![c] =
                                          [pc |-> "hvals", wallet_id |-> id.val,
                                           late |-> LateArrival(id.val)]]
                          /\ UNCHANGED response

SubmitStore(c, wallet_id_str, encrypted_share, helper_pubkey_str) ==
    /\ UNCHANGED <<ledgerVars, ussdVars, walletVars>>
    /\ calls[c] = Idle
    /\ \A d \in 1..(c - 1) : calls[d] # Idle
    /\ nRequests < MaxRequests
    /\ nRequests' = nRequests + 1
    /\ UNCHANGED <<relay, log, initiated, createdAt, nSplits, now, codec>>
    /\ LET id == Uuid_parse_str(wallet_id_str)
           helper_pubkey == from_bech32(helper_pubkey_str)
           fail(r, msg) ==
               /\ response' = Reply(r, msg, "none", IF id.ok THEN LateArrival(id.val) ELSE FALSE)
               /\ UNCHANGED <<redis, calls, submittedAs>>
       IN IF ~id.ok THEN fail("BadRequest", "Invalid wallet ID")
          ELSE IF ~helper_pubkey.ok THEN fail("BadRequest", "Invalid helper pubkey")
          ELSE LET decrypted_share_hex == nip04_decrypt(Sabi, helper_pubkey.val, encrypted_share)
               IN IF ~decrypted_share_hex.ok
                  THEN fail("BadRequest", "Failed to decrypt share")
                  ELSE IF ~hex_decode(decrypted_share_hex.val).ok
                  THEN fail("Internal", "Failed to hex-decode decrypted share")
                  ELSE /\ redis' = [redis EXCEPT ![redis_key(id.val)] =
                                       HSet(@, helper_pubkey_str, decrypted_share_hex.val)]
                       /\ calls' = [calls EXCEPT ![c] =
                                       [pc |-> "hvals", wallet_id |-> id.val,
                                        late |-> LateArrival(id.val)]]
                       /\ submittedAs' = [submittedAs EXCEPT ![id.val] = @ \cup {helper_pubkey_str}]
                       /\ UNCHANGED response

(* Line 133, the threshold test, and variants that are off by one. *)
EnoughSharesOffByOne(collected_shares) == Len(collected_shares) > Threshold

EnoughSharesTooEarly(collected_shares) == Len(collected_shares) >= Threshold - 1

EnoughShares(collected_shares) == Len(collected_shares) >= Threshold

(* Lines 130-159 and 162-170: HVALS, the threshold test, the              *)
(* reconstruction and the log line that displays the nsec.                *)
SubmitCheck(c) ==
    /\ UNCHANGED <<ledgerVars, ussdVars, walletVars>>
    /\ calls[c].pc = "hvals"
    /\ UNCHANGED <<redis, relay, initiated, createdAt, submittedAs,
                   nRequests, nSplits, now, codec>>
    /\ LET w == calls[c].wallet_id
           collected_shares == HVals(redis[redis_key(w)])
           return(r, msg, branch) ==
               /\ response' = Reply(r, msg, branch, calls[c].late)
               /\ calls' = [calls EXCEPT ![c] = Idle]
               /\ UNCHANGED log
       IN IF EnoughShares(collected_shares)
          THEN LET decoded == [i \in 1..Len(collected_shares) |-> hex_decode(collected_shares[i])]
               IN IF \E i \in 1..Len(decoded) : ~decoded[i].ok
                  THEN return("Internal", "Failed to decode hex share", "failed")
                  ELSE LET shares_bytes == [i \in 1..Len(decoded) |-> decoded[i].val]
                           reconstructed_secret == reconstruct_secret(shares_bytes)
                       IN IF ~reconstructed_secret.ok
                          THEN return("Internal", "Failed to reconstruct secret", "failed")
                          ELSE LET reconstructed_nsec ==
                                       SecretKey_from_slice(reconstructed_secret.val)
                               IN IF ~reconstructed_nsec.ok
                                  THEN return("Internal", "Failed to parse reconstructed nsec",
                                              "failed")
                                  ELSE /\ log' = [log EXCEPT ![w] =
                                                     Append(@, reconstructed_nsec.val)]
                                       /\ calls' = [calls EXCEPT ![c] =
                                             [pc |-> "del", wallet_id |-> w,
                                              late |-> calls[c].late,
                                              collected_shares |-> collected_shares]]
                                       /\ UNCHANGED response
          ELSE return("Ok", "Recovery share submitted successfully", "recorded")

(* DEL of a key, and a DEL that deletes nothing. *)
DelNothing(db, key) == db

Del(db, key) == [db EXCEPT ![key] = EmptyHash]

(* Line 161 and the return. *)
SubmitClear(c) ==
    /\ UNCHANGED <<ledgerVars, ussdVars, walletVars>>
    /\ calls[c].pc = "del"
    /\ redis' = Del(redis, redis_key(calls[c].wallet_id))
    /\ response' = Reply("Ok", "Recovery share submitted successfully", "reconstructed",
                         calls[c].late)
    /\ calls' = [calls EXCEPT ![c] = Idle]
    /\ UNCHANGED <<relay, log, initiated, createdAt, submittedAs, nRequests, nSplits, now,
                   codec>>

(* Time passes. *)
Tick ==
    /\ UNCHANGED <<ledgerVars, ussdVars, walletVars>>
    /\ now < MaxTime
    /\ now' = now + 1
    /\ UNCHANGED <<redis, calls, relay, log, response, initiated, createdAt,
                   submittedAs, nRequests, nSplits, codec>>

----------------------------------------------------------------------------
(* The webhooks and the admin release: src/src/api/webhooks.rs,           *)
(* src/src/services/fiat_service.rs, src/src/services/admin_service.rs.   *)
(* The database runs each statement on the committed state (READ          *)
(* COMMITTED); the SELECTs take no lock. A process_breez_payment call     *)
(* is two steps: its SELECT, and its UPDATEs with the commit (the row     *)
(* locks the UPDATEs take are held until the commit, and the balance      *)
(* update is relative, so the UPDATEs and the commit act as one step on   *)
(* the committed state). Statements outside a transaction commit on       *)
(* their own.                                                             *)

(* The raw phone numbers of the requests: the national and the            *)
(* international form of a number, and text that is no Nigerian number.   *)
Phone(nr, form) == [nr |-> nr, form |-> form]
NotAPhone == [nr |-> "none", form |-> "text"]
NoPhone == [nr |-> "none", form |-> "missing"]     \* the field is absent

(* NigerianPhoneNumber::new: both forms give the same E.164 string. *)
NigerianPhoneNumber_new(raw_phone_number) ==
    IF raw_phone_number.form \in {"national", "e164"} THEN Ok(raw_phone_number.nr)
    ELSE Err("Failed to parse phone number")

(* The tables users and wallets: the user of number p1 owns wallet w1,    *)
(* the user of p2 owns w2; any other number is the number of no user.     *)
WalletOfPhone(phone_number) ==
    IF phone_number = "p1" THEN Ok("w1")
    ELSE IF phone_number = "p2" THEN Ok("w2")
    ELSE Err("NotFound")

(* The id Uuid::new_v4 draws for the next row of a table. *)
NewId(table, absent) ==
    CHOOSE id \in DOMAIN table :
        table[id] = absent /\ \A j \in DOMAIN table : j < id => table[j] # absent

(* webhooks.rs:57-58, millisatoshi to satoshi: integer division. *)
MsatPerSat == 1000
msat_to_sats(msat) == msat \div MsatPerSat

(* fiat_service.rs:164 at the rate of line 244 (150,000,000 Naira for one *)
(* bitcoin): ((kobo / 100) / rate) * 100,000,000, truncated. The floating *)
(* point result is below the exact quotient for some amounts (450 kobo    *)
(* gives 2); KoboAmounts holds amounts on which the two agree.            *)
KoboPerSat == 150
kobo_to_sats(amount_kobo) == amount_kobo \div KoboPerSat
KoboAmounts == {300}

PaymentHashes == {"r1"}        \* payment hashes and Paystack references
AmountsMsat == {3000}
FeesMsat == {1000}
BreezStatuses == {"PAID", "FAILED"}

Done(op, result, note) == [op |-> op, result |-> result, note |-> note]

(* A request is taken up by a task of its own; the model gives it the    *)
(* first slot that is free.                                               *)
FirstFree(slots, c) == slots[c] = Idle /\ \A d \in 1..(c - 1) : slots[d] # Idle

(* The rows of transactions with the given external_id. *)
RowsByExternalId(external_id) ==
    {id \in TxIds : transactions[id] # NoTx /\ transactions[id].external_id = external_id}

(* Lines 73-80: balance_sats + amount - fee. *)
Credit(balance, amount, fee) == balance + amount - fee

(* breez_webhook_handler and lines 41-57 and 93-98 of                     *)
(* process_breez_payment: the SELECT by external_id. fetch_optional takes *)
(* the first row the database returns; which one that is when several     *)
(* rows hold the hash is not determined.                                  *)
BreezSelect(c, payment_hash, amount_msat, fee_msat, status) ==
    /\ FirstFree(tasks, c)
    /\ nCalls < MaxCalls
    /\ nCalls' = nCalls + 1
    /\ UNCHANGED <<recoveryVars, ussdVars, walletVars>>
    /\ UNCHANGED <<transactions, balance_sats, fiat_onramp_webhooks, payments, credited>>
    /\ IF RowsByExternalId(payment_hash) = {}
       THEN /\ outcome' = Done("breez", "Ok", "no matching transaction")
            /\ UNCHANGED tasks
       ELSE \E id \in RowsByExternalId(payment_hash) :
               IF transactions[id].status = "completed"
               THEN /\ outcome' = Done("breez", "Ok", "already completed")
                    /\ UNCHANGED tasks
               ELSE /\ tasks' = [tasks EXCEPT ![c] =
                                    [pc |-> "breez_update", id |-> id,
                                     wallet_id |-> transactions[id].wallet_id,
                                     amount_sats |-> msat_to_sats(amount_msat),
                                     fee_sats |-> msat_to_sats(fee_msat),
                                     status |-> status]]
                    /\ UNCHANGED outcome

(* Lines 59-92 and 98: the UPDATEs and the commit. *)
BreezUpdate(c) ==
    /\ tasks[c].pc = "breez_update"
    /\ UNCHANGED <<recoveryVars, ussdVars, walletVars>>
    /\ UNCHANGED <<fiat_onramp_webhooks, payments, nCalls>>
    /\ tasks' = [tasks EXCEPT ![c] = Idle]
    /\ LET t == tasks[c]
       IN IF t.status = "PAID"
          THEN /\ transactions' = [transactions EXCEPT ![t.id] =
                      [@ EXCEPT !.status = "completed", !.amount_sats = t.amount_sats,
                                !.fee_sats = t.fee_sats]]
               /\ balance_sats' = [balance_sats EXCEPT ![t.wallet_id] =
                                      Credit(@, t.amount_sats, t.fee_sats)]
               /\ credited' = [credited EXCEPT ![t.id] = @ + 1]
               /\ outcome' = Done("breez", "Ok", "completed")
          ELSE /\ transactions' = [transactions EXCEPT ![t.id] = [@ EXCEPT !.status = "failed"]]
               /\ outcome' = Done("breez", "Ok", "failed")
               /\ UNCHANGED <<balance_sats, credited>>

(* paystack_webhook_handler and lines 117-169 of process_paystack_deposit:*)
(* the INSERT of the webhook record, then the phone number, the user and  *)
(* the wallet (tables no request of the model writes) and the rate.       *)
PaystackRecord(c, event, status, reference, amount_kobo, phone_number) ==
    /\ FirstFree(tasks, c)
    /\ nCalls < MaxCalls
    /\ nCalls' = nCalls + 1
    /\ UNCHANGED <<recoveryVars, ussdVars, walletVars>>
    /\ UNCHANGED <<transactions, balance_sats, payments, credited>>
    /\ IF ~(event = "charge.success" /\ status = "success")
       THEN /\ outcome' = Done("paystack", "Ok", "not eligible for processing")
            /\ UNCHANGED <<fiat_onramp_webhooks, tasks>>
       ELSE LET webhook_id == NewId(fiat_onramp_webhooks, NoHook)
                canonical_phone == IF phone_number = NoPhone
                                   THEN Err("Phone number missing")
                                   ELSE NigerianPhoneNumber_new(phone_number)
                wallet == IF canonical_phone.ok THEN WalletOfPhone(canonical_phone.val)
                          ELSE Err("none")
            IN /\ fiat_onramp_webhooks' = [fiat_onramp_webhooks EXCEPT ![webhook_id] =
                      [event_id |-> reference, processed |-> FALSE]]
               /\ IF ~canonical_phone.ok
                  THEN /\ outcome' = Done("paystack", "BadRequest", "phone number")
                       /\ UNCHANGED tasks
                  ELSE IF ~wallet.ok
                  THEN /\ outcome' = Done("paystack", "Internal", "Failed to retrieve wallet")
                       /\ UNCHANGED tasks
                  ELSE /\ tasks' = [tasks EXCEPT ![c] =
                              [pc |-> "paystack_insert", webhook_id |-> webhook_id,
                               wallet_id |-> wallet.val, reference |-> reference,
                               btc_amount_sats |-> kobo_to_sats(amount_kobo)]]
                       /\ UNCHANGED outcome

(* Lines 171-186: the INSERT of the pending transaction. *)
PaystackInsert(c) ==
    /\ tasks[c].pc = "paystack_insert"
    /\ UNCHANGED <<recoveryVars, ussdVars, walletVars>>
    /\ UNCHANGED <<balance_sats, fiat_onramp_webhooks, payments, credited, nCalls, outcome>>
    /\ LET t == tasks[c]
           transaction_id == NewId(transactions, NoTx)
       IN /\ transactions' = [transactions EXCEPT ![transaction_id] =
                 [wallet_id |-> t.wallet_id, tx_type |-> "fiat_deposit",
                  amount_sats |-> t.btc_amount_sats, fee_sats |-> 0,
                  status |-> "pending", external_id |-> t.reference]]
          /\ tasks' = [tasks EXCEPT ![c] = [pc |-> "paystack_mark", webhook_id |-> t.webhook_id]]

(* Lines 200-208: the webhook record is marked processed. *)
PaystackMark(c) ==
    /\ tasks[c].pc = "paystack_mark"
    /\ UNCHANGED <<recoveryVars, ussdVars, walletVars>>
    /\ UNCHANGED <<transactions, balance_sats, payments, credited, nCalls>>
    /\ fiat_onramp_webhooks' = [fiat_onramp_webhooks EXCEPT ![tasks[c].webhook_id] =
                                   [@ EXCEPT !.processed = TRUE]]
    /\ outcome' = Done("paystack", "Ok", "processed")
    /\ tasks' = [tasks EXCEPT ![c] = Idle]

(* Transaction ids as the admin types them; NotAUuid is no uuid. *)
NotAUuid == 0
Uuid_parse_tx(transaction_id_str) ==
    IF transaction_id_str \in TxIds THEN Ok(transaction_id_str) ELSE Err("InvalidId")

(* Lines 165-170: the statuses a manual release is made from. *)
Releasable(status) == status \in {"pending", "admin_hold"}

(* BreezService::send_payment (src/src/bitcoin/breez.rs:51-70): the       *)
(* payment leaves and cannot be taken back; its hash is a fresh one.      *)
MockPaymentHash(n) == "mock_payment_hash_" \o ToString(n)

(* manual_release_funds, lines 143-170: the id, the SELECT, the status.   *)
ReleaseSelect(c, transaction_id_str, amount_sats, recipient) ==
    /\ FirstFree(tasks, c)
    /\ nCalls < MaxCalls
    /\ nCalls' = nCalls + 1
    /\ UNCHANGED <<recoveryVars, ussdVars, walletVars>>
    /\ UNCHANGED <<transactions, balance_sats, fiat_onramp_webhooks, payments, credited>>
    /\ LET transaction_id == Uuid_parse_tx(transaction_id_str)
           fail(r, note) ==
               /\ outcome' = [op |-> "release", result |-> r, note |-> note,
                              id |-> transaction_id_str]
               /\ UNCHANGED tasks
       IN IF ~transaction_id.ok THEN fail("BadRequest", "Invalid transaction ID")
          ELSE IF transactions[transaction_id.val] = NoTx THEN fail("NotFound", "not found")
          ELSE IF ~Releasable(transactions[transaction_id.val].status)
          THEN fail("BadRequest", "not in a state for manual release")
          ELSE /\ tasks' = [tasks EXCEPT ![c] =
                      [pc |-> "release_send", id |-> transaction_id.val,
                       amount_sats |-> amount_sats, recipient |-> recipient]]
               /\ UNCHANGED outcome

(* Lines 173-186: the payment is sent. *)
ReleaseSend(c) ==
    /\ tasks[c].pc = "release_send"
    /\ UNCHANGED <<recoveryVars, ussdVars, walletVars>>
    /\ UNCHANGED <<transactions, balance_sats, fiat_onramp_webhooks, credited, nCalls, outcome>>
    /\ LET payment_hash == MockPaymentHash(Len(payments) + 1)
       IN /\ payments' = Append(payments,
                 [id |-> tasks[c].id, amount_sats |-> tasks[c].amount_sats,
                  destination |-> tasks[c].recipient, payment_hash |-> payment_hash])
          /\ tasks' = [tasks EXCEPT ![c] =
                 [pc |-> "release_update", id |-> tasks[c].id, payment_hash |-> payment_hash]]

(* Lines 188-205: the UPDATE and the commit. *)
ReleaseUpdate(c) ==
    /\ tasks[c].pc = "release_update"
    /\ UNCHANGED <<recoveryVars, ussdVars, walletVars>>
    /\ UNCHANGED <<balance_sats, fiat_onramp_webhooks, payments, credited, nCalls>>
    /\ transactions' = [transactions EXCEPT ![tasks[c].id] =
           [@ EXCEPT !.status = "completed", !.external_id = tasks[c].payment_hash]]
    /\ outcome' = [op |-> "release", result |-> "Ok", note |-> "released", id |-> tasks[c].id]
    /\ tasks' = [tasks EXCEPT ![c] = Idle]

(* The requests of the webhook and admin endpoints. *)
NextPayments ==
    \/ \E c \in 1..MaxInFlight, h \in PaymentHashes, a \in AmountsMsat, f \in FeesMsat,
          st \in BreezStatuses :
           BreezSelect(c, h, a, f, st)
    \/ \E c \in 1..MaxInFlight : BreezUpdate(c)
    \/ \E c \in 1..MaxInFlight, ev \in {"charge.success", "charge.failed"},
          r \in PaymentHashes, k \in KoboAmounts,
          ph \in {Phone("p1", "national"), Phone("p3", "e164"), NoPhone} :
           PaystackRecord(c, ev, "success", r, k, ph)
    \/ \E c \in 1..MaxInFlight : PaystackInsert(c)
    \/ \E c \in 1..MaxInFlight : PaystackMark(c)
    \/ \E c \in 1..MaxInFlight, t \in {1, 2, NotAUuid} : ReleaseSelect(c, t, 2, "bc1dest")
    \/ \E c \in 1..MaxInFlight : ReleaseSend(c)
    \/ \E c \in 1..MaxInFlight : ReleaseUpdate(c)

SpecPayments == Init /\ [][NextPayments]_vars

----------------------------------------------------------------------------
(* The USSD menu: src/src/services/ussd_service.rs. The state of a        *)
(* session is the value of the Redis key ussd:session:<id>. A request     *)
(* awaits Redis and the database one command at a time; requests of one   *)
(* session interleave at those points, and between any two commands the   *)
(* key may run out of its time to live.                                   *)

(* A text is the sequence of its words, the words parted by one space.    *)
(* splitn(2, ' '): the first word and the rest, or the text itself when   *)
(* it holds no space.                                                     *)
splitn2(text) == IF Len(text) < 2 THEN <<text>> ELSE <<Head(text), Tail(text)>>

(* str::parse::<i64>: decimal digits with an optional sign; the numbers   *)
(* of the model are those of AmountRange.                                 *)
AmountRange == -2..3
parse_i64(word) ==
    IF \E n \in AmountRange : ToString(n) = word
    THEN Ok(CHOOSE n \in AmountRange : ToString(n) = word)
    ELSE IF \E n \in AmountRange : n > 0 /\ "+" \o ToString(n) = word
    THEN Ok(CHOOSE n \in AmountRange : n > 0 /\ "+" \o ToString(n) = word)
    ELSE Err("invalid digit found in string")

(* UssdState, as_str and from_str (lines 12-44). *)
UssdStates ==
    {"Start", "MainMenu", "CheckBalance", "SendBitcoin", "ReceiveBitcoin", "ConfirmSendBitcoin"}

as_str(state) ==
    CASE state = "Start" -> "START"
      [] state = "MainMenu" -> "MAIN_MENU"
      [] state = "CheckBalance" -> "CHECK_BALANCE"
      [] state = "SendBitcoin" -> "SEND_BITCOIN"
      [] state = "ReceiveBitcoin" -> "RECEIVE_BITCOIN"
      [] state = "ConfirmSendBitcoin" -> "CONFIRM_SEND_BITCOIN"

from_str(str) ==
    IF \E st \in UssdStates : as_str(st) = str
    THEN Ok(CHOOSE st \in UssdStates : as_str(st) = str)
    ELSE Err("None")

(* Values of a Redis key. A string value holds, for the claims, the       *)
(* amount and address of the confirmation prompt that came with it        *)
(* (prompt); ttl is the time to live set on the key, in seconds, and 0    *)
(* when none is set. The model keeps no clock for it: a key whose time to *)
(* live is set may be gone at any later step (KeyExpires).                *)
USSD_SESSION_TTL_SECONDS == 180

NoPrompt == <<>>
NoField == Err("nil")
StringValue(val, prompt) == [type |-> "string", val |-> val, ttl |-> 0, prompt |-> prompt]
HashValue(amount, address, ttl) ==
    [type |-> "hash", amount |-> amount, address |-> address, ttl |-> ttl]

PromptOf(value) == IF value.type = "string" THEN value.prompt ELSE NoPrompt

(* GET: nil on a missing key, an error on a key of another type. *)
SessionGet(value) ==
    IF value.type = "hash" THEN Err("WRONGTYPE")
    ELSE IF value.type = "none" THEN Ok("nil")
    ELSE Ok(value.val)

(* SET replaces whatever the key holds and discards its time to live. *)
SessionSet(value, val, prompt) == StringValue(val, prompt)

(* HSET makes the hash when the key is missing, keeps a time to live, and *)
(* fails on a key that holds a string.                                    *)
SessionHSet(value, field, x) ==
    IF value.type = "string" THEN Err("WRONGTYPE")
    ELSE LET hash == IF value.type = "none" THEN HashValue(NoField, NoField, 0) ELSE value
         IN Ok(IF field = "amount" THEN [hash EXCEPT !.amount = Ok(x)]
               ELSE [hash EXCEPT !.address = Ok(x)])

(* HGET read as a String: an error on a key that holds a string, and on   *)
(* nil (a missing key or field).                                          *)
SessionHGet(value, field) ==
    IF value.type = "string" THEN Err("WRONGTYPE")
    ELSE IF value.type = "none" THEN Err("nil")
    ELSE IF field = "amount" THEN value.amount ELSE value.address

(* EXPIRE sets the time to live of a key that exists. *)
SessionPersist(value, seconds) == value

SessionExpire(value, seconds) ==
    IF value.type = "none" THEN value ELSE [value EXCEPT !.ttl = seconds]

(* Lines 273-283 without the condition on the balance. *)
DebitAlways(balance, amount_sats) == Ok(balance - amount_sats)

(* Lines 273-283: balance_sats - $1 WHERE balance_sats >= $1, one         *)
(* statement; no row is updated when the condition fails.                 *)
DebitIfSufficient(balance, amount_sats) ==
    IF balance >= amount_sats THEN Ok(balance - amount_sats)
    ELSE Err("Insufficient balance or wallet not found")

(* Lines 187-217 with the send as the default arm. *)
ConfirmChoiceDefaultSend(input) ==
    IF input = <<"0">> THEN "del" ELSE "hget_amount"

(* Lines 187-217: what handle_confirm_send_bitcoin_state does first on an *)
(* input: "1" reads the amount, "0" deletes the key, anything else goes   *)
(* straight to the response.                                              *)
ConfirmChoice(input) ==
    IF input = <<"1">> THEN "hget_amount"
    ELSE IF input = <<"0">> THEN "del"
    ELSE "expire"

UssdCall(pc, session_id, phone_number, text, state, prompt) ==
    [pc |-> pc, session_id |-> session_id, phone_number |-> phone_number, text |-> text,
     state |-> state, prompt |-> prompt, val |-> "", amount |-> 0, amount_str |-> "",
     address |-> <<>>, response |-> ""]

UssdDone(call, result, note) ==
    [op |-> "ussd", result |-> result, note |-> note, state |-> call.state,
     text |-> call.text, session_id |-> call.session_id]

(* The call in slot c returns without another command. *)
UssdReturn(c, call, result, note) ==
    /\ outcome' = UssdDone(call, result, note)
    /\ ussd' = [ussd EXCEPT ![c] = Idle]

(* The call in slot c goes on at pc, having set the given fields. *)
UssdGoto(c, call) ==
    /\ ussd' = [ussd EXCEPT ![c] = call]
    /\ UNCHANGED outcome

(* Lines 54-76 up to the first command of the state's handler: the phone  *)
(* number, the GET of the session key, the state, and what the handler    *)
(* decides from the input alone. The lookups in users and wallets (tables *)
(* no request of the model writes) are taken here.                        *)
UssdGet(c, session_id, raw_phone_number, text) ==
    /\ FirstFree(ussd, c)
    /\ nCalls < MaxDials
    /\ nCalls' = nCalls + 1
    /\ UNCHANGED <<recoveryVars, walletVars>>
    /\ UNCHANGED <<transactions, balance_sats, fiat_onramp_webhooks, tasks, payments, credited>>
    /\ UNCHANGED <<sessions, sends>>
    /\ LET phone == NigerianPhoneNumber_new(raw_phone_number)
           got == SessionGet(sessions[session_id])
           st == IF got.ok /\ from_str(got.val).ok THEN from_str(got.val).val ELSE "Start"
           call == UssdCall("get", session_id, IF phone.ok THEN phone.val ELSE "none", text,
                            st, PromptOf(sessions[session_id]))
           set(state, menu) ==
               UssdGoto(c, [call EXCEPT !.pc = "set", !.val = as_str(state),
                                        !.response = menu])
           user == WalletOfPhone(call.phone_number)
       IN IF ~phone.ok THEN UssdReturn(c, call, "BadRequest", "Invalid phone number")
          ELSE IF ~got.ok THEN UssdReturn(c, call, "Redis", got.err)
          ELSE CASE st = "Start" ->
                       set("MainMenu", IF text = <<>> THEN "CON Welcome 1. Main Menu"
                                       ELSE IF text = <<"1">> THEN "CON Welcome 1. 2. 3."
                                       ELSE "END Invalid input")
                 [] st = "MainMenu" ->
                       IF text = <<"1">>
                       THEN IF ~user.ok THEN UssdReturn(c, call, "NotFound", "User not found")
                            ELSE set("CheckBalance", "END balance")
                       ELSE IF text = <<"2">>
                       THEN set("SendBitcoin", "CON Enter amount and address")
                       ELSE IF text = <<"3">>
                       THEN IF ~user.ok THEN UssdReturn(c, call, "NotFound", "User not found")
                            ELSE set("ReceiveBitcoin", "END address")
                       ELSE set("MainMenu", "CON Invalid option")
                 [] st \in {"CheckBalance", "ReceiveBitcoin"} ->
                       IF ~user.ok THEN UssdReturn(c, call, "NotFound", "User not found")
                       ELSE UssdGoto(c, [call EXCEPT !.pc = "expire", !.response = "END"])
                 [] st = "SendBitcoin" ->
                       LET parts == splitn2(text)
                       IN IF Len(parts) # 2
                          THEN set("SendBitcoin", "CON Invalid format")
                          ELSE IF ~parse_i64(parts[1]).ok
                          THEN UssdReturn(c, call, "BadRequest", "Invalid amount")
                          ELSE UssdGoto(c, [call EXCEPT !.pc = "hset_amount",
                                                         !.amount = parse_i64(parts[1]).val,
                                                         !.address = parts[2]])
                 [] st = "ConfirmSendBitcoin" ->
                       UssdGoto(c, [call EXCEPT !.pc = ConfirmChoice(text),
                                                !.response = IF text = <<"0">> THEN "END cancelled"
                                                             ELSE "CON Invalid input"])

(* A SET of the session key: lines 97, 111, 115, 120, 124, 148 and 162.   *)
UssdSet(c) ==
    /\ ussd[c].pc = "set"
    /\ UNCHANGED <<recoveryVars, walletVars>>
    /\ UNCHANGED <<ledgerVars, sends>>
    /\ sessions' = [sessions EXCEPT ![ussd[c].session_id] =
           SessionSet(@, ussd[c].val,
                      IF ussd[c].val = as_str("ConfirmSendBitcoin")
                      THEN <<ussd[c].amount, ussd[c].address>> ELSE NoPrompt)]
    /\ ussd' = [ussd EXCEPT ![c] = [@ EXCEPT !.pc = "expire"]]

(* Line 160: HSET amount. The number is stored as its decimal text. *)
UssdHsetAmount(c) ==
    /\ ussd[c].pc = "hset_amount"
    /\ UNCHANGED <<recoveryVars, walletVars>>
    /\ UNCHANGED <<transactions, balance_sats, fiat_onramp_webhooks, tasks, payments,
                   credited, nCalls, sends>>
    /\ LET r == SessionHSet(sessions[ussd[c].session_id], "amount", ToString(ussd[c].amount))
       IN IF ~r.ok
          THEN /\ UssdReturn(c, ussd[c], "Redis", r.err)
               /\ UNCHANGED sessions
          ELSE /\ sessions' = [sessions EXCEPT ![ussd[c].session_id] = r.val]
               /\ UssdGoto(c, [ussd[c] EXCEPT !.pc = "hset_address"])

(* Line 161: HSET address; the SET of line 162 follows. *)
UssdHsetAddress(c) ==
    /\ ussd[c].pc = "hset_address"
    /\ UNCHANGED <<recoveryVars, walletVars>>
    /\ UNCHANGED <<transactions, balance_sats, fiat_onramp_webhooks, tasks, payments,
                   credited, nCalls, sends>>
    /\ LET r == SessionHSet(sessions[ussd[c].session_id], "address", ussd[c].address)
       IN IF ~r.ok
          THEN /\ UssdReturn(c, ussd[c], "Redis", r.err)
               /\ UNCHANGED sessions
          ELSE /\ sessions' = [sessions EXCEPT ![ussd[c].session_id] = r.val]
               /\ UssdGoto(c, [ussd[c] EXCEPT !.pc = "set",
                                              !.val = as_str("ConfirmSendBitcoin"),
                                              !.response = "CON Confirm send"])

(* Line 189: HGET amount. *)
UssdHgetAmount(c) ==
    /\ ussd[c].pc = "hget_amount"
    /\ UNCHANGED <<recoveryVars, walletVars>>
    /\ UNCHANGED <<transactions, balance_sats, fiat_onramp_webhooks, tasks, payments,
                   credited, nCalls, sends, sessions>>
    /\ LET r == SessionHGet(sessions[ussd[c].session_id], "amount")
       IN IF ~r.ok THEN UssdReturn(c, ussd[c], "Redis", r.err)
          ELSE UssdGoto(c, [ussd[c] EXCEPT !.pc = "hget_address", !.amount_str = r.val])

(* Lines 190-193: HGET address, and the amount parsed. *)
UssdHgetAddress(c) ==
    /\ ussd[c].pc = "hget_address"
    /\ UNCHANGED <<recoveryVars, walletVars>>
    /\ UNCHANGED <<transactions, balance_sats, fiat_onramp_webhooks, tasks, payments,
                   credited, nCalls, sends, sessions>>
    /\ LET r == SessionHGet(sessions[ussd[c].session_id], "address")
           amount == parse_i64(ussd[c].amount_str)
       IN IF ~r.ok THEN UssdReturn(c, ussd[c], "Redis", r.err)
          ELSE IF ~amount.ok THEN UssdReturn(c, ussd[c], "Internal", "Failed to parse amount")
          ELSE UssdGoto(c, [ussd[c] EXCEPT !.pc = "send", !.amount = amount.val,
                                           !.address = r.val])

(* ussd_send_bitcoin (lines 242-288), called at line 196: the user of the *)
(* phone number and the one UPDATE of the balance.                        *)
UssdSend(c) ==
    /\ ussd[c].pc = "send"
    /\ UNCHANGED <<recoveryVars, walletVars>>
    /\ UNCHANGED <<transactions, fiat_onramp_webhooks, tasks, payments, credited, nCalls,
                   sessions, outcome>>
    /\ LET call == ussd[c]
           wallet == WalletOfPhone(call.phone_number)
           debit == IF wallet.ok THEN DebitIfSufficient(balance_sats[wallet.val], call.amount)
                    ELSE Err("User not found")
           result == IF ~wallet.ok THEN "NotFound" ELSE IF ~debit.ok THEN "BadRequest" ELSE "Ok"
       IN /\ balance_sats' = IF debit.ok THEN [balance_sats EXCEPT ![wallet.val] = debit.val]
                             ELSE balance_sats
          /\ sends' = Append(sends, [phone_number |-> call.phone_number,
                                     amount_sats |-> call.amount, address |-> call.address,
                                     result |-> result, state |-> call.state,
                                     text |-> call.text, prompt |-> call.prompt])
          /\ ussd' = [ussd EXCEPT ![c] =
                 [call EXCEPT !.pc = "del",
                              !.response = IF result = "Ok" THEN "END Bitcoin sent successfully!"
                                           ELSE "END Failed to send Bitcoin"]]

(* Lines 199 and 210: DEL of the session key. *)
UssdDel(c) ==
    /\ ussd[c].pc = "del"
    /\ UNCHANGED <<recoveryVars, walletVars>>
    /\ UNCHANGED <<ledgerVars, sends>>
    /\ sessions' = [sessions EXCEPT ![ussd[c].session_id] = Absent]
    /\ ussd' = [ussd EXCEPT ![c] = [@ EXCEPT !.pc = "expire"]]

(* Lines 79-81: EXPIRE, and the response. *)
UssdExpire(c) ==
    /\ ussd[c].pc = "expire"
    /\ UNCHANGED <<recoveryVars, walletVars>>
    /\ UNCHANGED <<transactions, balance_sats, fiat_onramp_webhooks, tasks, payments,
                   credited, nCalls, sends>>
    /\ sessions' = [sessions EXCEPT ![ussd[c].session_id] =
                        SessionExpire(@, USSD_SESSION_TTL_SECONDS)]
    /\ UssdReturn(c, ussd[c], "Ok", ussd[c].response)

(* The time to live set on the key has passed: the key is gone. *)
KeyExpires(session_id) ==
    /\ sessions[session_id].type # "none"
    /\ sessions[session_id].ttl > 0
    /\ sessions' = [sessions EXCEPT ![session_id] = Absent]
    /\ UNCHANGED <<recoveryVars, walletVars>>
    /\ UNCHANGED <<ledgerVars, ussd, sends>>

(* What the subscriber of number p1 types. *)
Texts == {<<"1">>, <<"2">>, <<"0">>, <<"3", "bc1a">>, <<"-2", "bc1b">>}

(* The wallet of p1 holds StartBalance satoshi (credited by a Breez        *)
(* payment before the first dial).                                        *)
StartBalance == 3

InitFunded ==
    /\ InitRecovery
    /\ codec = CodecOff
    /\ InitLedger([w \in Wallets |-> IF w = "w1" THEN StartBalance ELSE 0])
    /\ InitUssd
    /\ InitWallets

NextUssd ==
    \/ \E c \in 1..MaxInFlight, sid \in SessionIds, text \in Texts :
           UssdGet(c, sid, Phone("p1", "national"), text)
    \/ \E c \in 1..MaxInFlight : UssdSet(c)
    \/ \E c \in 1..MaxInFlight : UssdHsetAmount(c)
    \/ \E c \in 1..MaxInFlight : UssdHsetAddress(c)
    \/ \E c \in 1..MaxInFlight : UssdHgetAmount(c)
    \/ \E c \in 1..MaxInFlight : UssdHgetAddress(c)
    \/ \E c \in 1..MaxInFlight : UssdSend(c)
    \/ \E c \in 1..MaxInFlight : UssdDel(c)
    \/ \E c \in 1..MaxInFlight : UssdExpire(c)
    \/ \E sid \in SessionIds : KeyExpires(sid)

SpecUssd == InitFunded /\ [][NextUssd]_vars

(* ussd_send_bitcoin on its own, called as line 196 calls it once the two *)
(* HGETs have returned, with any amount and address, by several requests  *)
(* at once.                                                               *)
SendAmounts == {-2, 1, StartBalance, StartBalance + 1}

UssdSendCall(c, session_id, raw_phone_number, amount_sats, address) ==
    /\ FirstFree(ussd, c)
    /\ nCalls < MaxSends
    /\ nCalls' = nCalls + 1
    /\ UNCHANGED <<recoveryVars, walletVars>>
    /\ UNCHANGED <<transactions, balance_sats, fiat_onramp_webhooks, tasks, payments,
                   credited, outcome>>
    /\ UNCHANGED <<sessions, sends>>
    /\ ussd' = [ussd EXCEPT ![c] =
           [UssdCall("send", session_id, NigerianPhoneNumber_new(raw_phone_number).val,
                     <<"1">>, "ConfirmSendBitcoin", NoPrompt)
               EXCEPT !.amount = amount_sats, !.address = address]]

NextUssdSend ==
    \/ \E c \in 1..MaxInFlight, sid \in SessionIds, amount \in SendAmounts,
          ph \in {Phone("p1", "national"), Phone("p3", "e164")} :
           UssdSendCall(c, sid, ph, amount, <<"bc1a">>)
    \/ \E c \in 1..MaxInFlight : UssdSend(c)
    \/ \E c \in 1..MaxInFlight : UssdDel(c)
    \/ \E c \in 1..MaxInFlight : UssdExpire(c)

SpecUssdSend == InitFunded /\ [][NextUssdSend]_vars

(* The session of p1 two dials on: the subscriber has chosen "2" in the   *)
(* main menu, the key holds SendBitcoin and its time to live runs. The    *)
(* subscriber's inputs from here are an amount with an address, and "1".  *)
InitSendBitcoin ==
    /\ InitRecovery
    /\ codec = CodecOff
    /\ InitLedger([w \in Wallets |-> IF w = "w1" THEN StartBalance ELSE 0])
    /\ InitWallets
    /\ sessions = [sid \in SessionIds |->
                      SessionExpire(SessionSet(Absent, as_str("SendBitcoin"), NoPrompt),
                                    USSD_SESSION_TTL_SECONDS)]
    /\ ussd = [c \in 1..MaxConfirms |-> Idle]
    /\ sends = <<>>

NextUssdConfirm ==
    \/ \E c \in 1..MaxConfirms, sid \in SessionIds, text \in {<<"1">>, <<"3", "bc1a">>} :
           UssdGet(c, sid, Phone("p1", "national"), text)
    \/ \E c \in 1..MaxConfirms : UssdSet(c)
    \/ \E c \in 1..MaxConfirms : UssdHsetAmount(c)
    \/ \E c \in 1..MaxConfirms : UssdHsetAddress(c)
    \/ \E c \in 1..MaxConfirms : UssdHgetAmount(c)
    \/ \E c \in 1..MaxConfirms : UssdHgetAddress(c)
    \/ \E c \in 1..MaxConfirms : UssdSend(c)
    \/ \E c \in 1..MaxConfirms : UssdDel(c)
    \/ \E c \in 1..MaxConfirms : UssdExpire(c)
    \/ \E sid \in SessionIds : KeyExpires(sid)

SpecUssdConfirm == InitSendBitcoin /\ [][NextUssdConfirm]_vars

----------------------------------------------------------------------------
(* POST /wallet/create: create_wallet_handler (api/wallet.rs) and         *)
(* WalletService::create_lightning_wallet (services/wallet_service.rs).   *)
(* The check for an existing wallet and the INSERT are two statements on  *)
(* the pool, with no transaction around them.                             *)

Users == {"u1", "u2"}

(* Uuid::parse_str on the payload's user_id (wallet.rs 42-43). *)
Uuid_parse_user(s) == IF s \in Users THEN Ok(s) ELSE Err("BadRequest")

(* Line 46 of wallet.rs. The model keeps of a phone_number what the line  *)
(* looks at: whether it starts with '+', and its length.                  *)
valid_phone(phone_number) == phone_number.plus /\ phone_number.len >= 10

(* SELECT EXISTS(SELECT 1 FROM wallets WHERE user_id = $1). *)
user_has_wallet(user_id) ==
    \E i \in 1..Len(wallet_rows) : wallet_rows[i].user_id = user_id

(* The table wallets holds at most one row per user_id: the database      *)
(* rejects the INSERT of a second row for the user with the error         *)
(* "duplicate key value violates unique constraint". The id is a fresh    *)
(* v4 uuid and never collides.                                            *)
InsertWallet(user_id) ==
    IF \E i \in 1..Len(wallet_rows) : wallet_rows[i].user_id = user_id
    THEN Err("duplicate key")
    ELSE Ok([id |-> Len(wallet_rows) + 1, user_id |-> user_id])

(* Lines 81-89: what create_lightning_wallet makes of the INSERT's error. *)
MapInsertErrorPlain(e) ==
    IF e = "RowNotFound" THEN "NotFound" ELSE "Sqlx"

MapInsertError(e) ==
    IF e = "RowNotFound" THEN "NotFound"
    ELSE IF e = "duplicate key" THEN "Conflict"
    ELSE "Sqlx"

(* Lines 37-60 of wallet.rs: the checks of the payload and of the table. *)
CreateCheck(c, user_id_str, phone_number) ==
    /\ FirstFree(creating, c)
    /\ Len(created) + Cardinality({d \in 1..MaxInFlight : creating[d] # Idle}) < MaxCreates
    /\ UNCHANGED <<recoveryVars, ledgerVars, ussdVars, wallet_rows>>
    /\ LET id == Uuid_parse_user(user_id_str)
           reply(r, note) ==
               Append(created, [user_id |-> user_id_str, phone_number |-> phone_number,
                                result |-> r, note |-> note])
       IN IF ~id.ok
          THEN created' = reply("BadRequest", "Invalid user_id format") /\ UNCHANGED creating
          ELSE IF ~valid_phone(phone_number)
          THEN created' = reply("BadRequest", "Phone number must start with + and be at least 10 digits")
               /\ UNCHANGED creating
          ELSE IF user_has_wallet(id.val)
          THEN created' = reply("Conflict", "User already has a Lightning wallet")
               /\ UNCHANGED creating
          ELSE /\ creating' = [creating EXCEPT ![c] =
                                  [pc |-> "insert", user_id |-> id.val,
                                   phone_number |-> phone_number]]
               /\ UNCHANGED created

(* Lines 63-68 of wallet.rs and 63-89 of wallet_service.rs: the INSERT. *)
CreateInsert(c) ==
    /\ creating[c].pc = "insert"
    /\ UNCHANGED <<recoveryVars, ledgerVars, ussdVars>>
    /\ creating' = [creating EXCEPT ![c] = Idle]
    /\ LET call == creating[c]
           row == InsertWallet(call.user_id)
           reply(r, note) ==
               Append(created, [user_id |-> call.user_id, phone_number |-> call.phone_number,
                                result |-> r, note |-> note])
       IN IF row.ok
          THEN /\ wallet_rows' = Append(wallet_rows, row.val)
               /\ created' = reply("Created", "Lightning wallet created")
          ELSE /\ UNCHANGED wallet_rows
               /\ created' = reply(MapInsertError(row.err),
                                    "Wallet already exists for this user")

NextCreate ==
    \/ (\E c \in 1..MaxInFlight, u \in Users \cup {InvalidId},
            p \in {[plus |-> TRUE, len |-> 14], [plus |-> FALSE, len |-> 11],
                   [plus |-> TRUE, len |-> 4]} :
            CreateCheck(c, u, p))
    \/ (\E c \in 1..MaxInFlight : CreateInsert(c))

SpecCreate == Init /\ [][NextCreate]_vars

----------------------------------------------------------------------------
(* Specifications. Requests are for wallet w1 (which has an nsec), w2     *)
(* (which has none) or an ill-formed id.                                  *)

InitiateAny ==
    \E w \in Wallets \cup {InvalidId}, l \in HelperLists, failAt \in SendFailures :
        Initiate(w, l, failAt)

SubmitStoreAny ==
    \E c \in 1..MaxInFlight, w \in {"w1", InvalidId}, p \in NpubStrings :
        \E e \in Envelopes("w1", IF from_bech32(p).ok THEN from_bech32(p).val ELSE "h1") :
            SubmitStore(c, w, e, p)

SubmitCheckAny == \E c \in 1..MaxInFlight : SubmitCheck(c)

SubmitClearAny == \E c \in 1..MaxInFlight : SubmitClear(c)

(* Concurrent requests, no time passing. *)
Next == InitiateAny \/ SubmitStoreAny \/ SubmitCheckAny \/ SubmitClearAny

Spec == Init /\ [][Next]_vars

(* Concurrent requests while time passes. *)
NextExpiry == InitiateAny \/ SubmitStoreAny \/ SubmitCheckAny \/ SubmitClearAny \/ Tick

SpecExpiry == Init /\ [][NextExpiry]_vars

(* Concurrent requests, the helper lists of any length. *)
InitiateLists ==
    \E w \in Wallets \cup {InvalidId}, l \in HelperListsAny, failAt \in SendFailures :
        Initiate(w, l, failAt)

NextLists == InitiateLists \/ SubmitStoreAny \/ SubmitCheckAny \/ SubmitClearAny

SpecLists == Init /\ [][NextLists]_vars

(* Requests while the five helpers are listed in either order. *)
InitiateReordered == \E l \in HelperListsReordered : Initiate("w1", l, 0)

NextReordered ==
    \/ InitiateReordered
    \/ SubmitStoreAny
    \/ SubmitCheckAny
    \/ SubmitClearAny

SpecReordered == Init /\ [][NextReordered]_vars

(* Requests whose envelopes may have been tampered with on the way. *)
SubmitStoreTampered ==
    \E c \in 1..MaxInFlight, p \in Fields :
        \E e \in Envelopes("w1", from_bech32(p).val) \cup
                  TamperedEnvelopes("w1", from_bech32(p).val) :
            SubmitStore(c, "w1", e, p)

NextTamper == InitiateAny \/ SubmitStoreTampered \/ SubmitCheckAny \/ SubmitClearAny

SpecTamper == Init /\ [][NextTamper]_vars

(* Helpers submit the shares of w1 in the name of either wallet. *)
SubmitStoreWallets ==
    \E c \in 1..MaxInFlight, w \in Wallets, p \in Fields :
        \E t \in ReceivedTexts("w1", from_bech32(p).val) :
            SubmitStore(c, w, nip04_encrypt(from_bech32(p).val, Sabi, t), p)

NextWallets ==
    \/ (\E w \in Wallets : Initiate(w, <<Npub("h1"), Npub("h2"), Npub("h3"), Npub("h4"), Npub("h5")>>, 0))
    \/ SubmitStoreWallets
    \/ SubmitCheckAny
    \/ SubmitClearAny

SpecWallets == Init /\ [][NextWallets]_vars

(* One request at a time: a submission starts when the one before it has  *)
(* returned.                                                              *)
NextSeq ==
    \/ InitiateAny
    \/ (AllIdle /\ SubmitStoreAny)
    \/ SubmitCheckAny
    \/ SubmitClearAny

SpecSeq == Init /\ [][NextSeq]_vars

(* Requests whose helper list may hold one key that is no npub, in the    *)
(* first or in the third place of the list.                               *)
HelperListsInvalid ==
    {[i \in 1..TotalShares |-> IF i = k THEN InvalidNpub ELSE l[i]] :
        k \in {1, 3}, l \in HelperLists}

NextInvalidHelper ==
    \/ (\E l \in HelperLists \cup HelperListsInvalid : Initiate("w1", l, 0))
    \/ SubmitStoreAny
    \/ SubmitCheckAny
    \/ SubmitClearAny

SpecInvalidHelper == Init /\ [][NextInvalidHelper]_vars

----------------------------------------------------------------------------
(* A split / reconstruct round trip on its own, the shares passing as hex *)
(* text as they do between lines 72 and 142: split_secret(secret, k, n),  *)
(* then reconstruct_secret on k of the shares in some order.              *)

Coefficients == {0, 2, 5}

CodecInputs ==
    {[pc |-> "input", secret |-> s, k |-> k, n |-> n, rnd |-> rnd] :
        s \in 0..(FieldP - 1), n \in 1..MaxShares, k \in 0..(MaxShares + 1),
        rnd \in UNION {[1..m -> Coefficients] : m \in 0..MaxShares}}

InitCodec ==
    /\ InitProgram
    /\ codec \in {c \in CodecInputs :
                     /\ c.k <= c.n + 1
                     /\ Len(c.rnd) = IF c.k = 0 THEN 0 ELSE c.k - 1}

CodecSplit ==
    /\ UNCHANGED <<ledgerVars, ussdVars, walletVars>>
    /\ codec.pc = "input"
    /\ LET shares == split_secret(<<codec.secret>>, codec.k, codec.n, codec.rnd)
       IN codec' = IF ~shares.ok
                   THEN [pc |-> "rejected", k |-> codec.k, n |-> codec.n, out |-> shares]
                   ELSE [pc |-> "split", secret |-> codec.secret, k |-> codec.k,
                         shares |-> [i \in 1..codec.n |-> hex_encode(shares.val[i])]]
    /\ UNCHANGED <<redis, calls, relay, log, response, initiated, createdAt,
                   submittedAs, nRequests, nSplits, now>>

(* The ways to hand over k of n shares: k distinct positions, in any order. *)
Orders(k, n) == {o \in [1..k -> 1..n] : \A i, j \in 1..k : i # j => o[i] # o[j]}

CodecReconstruct(order) ==
    /\ UNCHANGED <<ledgerVars, ussdVars, walletVars>>
    /\ codec.pc = "split"
    /\ LET decoded == [i \in 1..Len(order) |-> hex_decode(codec.shares[order[i]])]
           out == IF \E i \in 1..Len(decoded) : ~decoded[i].ok THEN Err("InvalidHex")
                  ELSE reconstruct_secret([i \in 1..Len(decoded) |-> decoded[i].val])
       IN codec' = [pc |-> "done", secret |-> codec.secret, k |-> codec.k,
                    order |-> order, out |-> out]
    /\ UNCHANGED <<redis, calls, relay, log, response, initiated, createdAt,
                   submittedAs, nRequests, nSplits, now>>

CodecReconstructAny ==
    /\ codec.pc = "split"
    /\ \E o \in Orders(codec.k, Len(codec.shares)) : CodecReconstruct(o)

NextCodec == CodecSplit \/ CodecReconstructAny

SpecCodec == InitCodec /\ [][NextCodec]_vars

----------------------------------------------------------------------------
(* Claims *)

(* The helper keys that have had a share stored for w. *)
DistinctSubmitters(w) == {from_bech32(str).val : str \in submittedAs[w]}

(* C1: one session sees at most one reconstruction, whatever the order    *)
(* and interleaving of the submissions: with at most one initiate for a   *)
(* wallet, at most one nsec is ever reconstructed and displayed for it.   *)
C1_SingleReconstruction ==
    \A w \in Wallets : initiated[w] <= 1 => Len(log[w]) <= 1

(* The end-to-end scenario on w1: the one initiate call that has split   *)
(* the nsec returned Ok, and every helper submits under one key string.  *)
Scenario ==
    /\ nSplits = 1
    /\ initiated["w1"] = 1
    /\ Cardinality(submittedAs["w1"]) = Cardinality(DistinctSubmitters("w1"))

C3_ResubmissionCountsOnce ==
    \A w \in Wallets :
        Cardinality(HKeys(redis[w])) <= Cardinality(DistinctSubmitters(w))

(* C4: no share is recorded for a wallet without a session: once the only *)
(* session of the wallet has reconstructed and cleared, the hash of the   *)
(* wallet stays empty.                                                    *)
C4_NoShareWithoutSession ==
    \A w \in Wallets :
        (/\ nSplits = 1 /\ initiated[w] = 1
         /\ Len(log[w]) >= 1
         /\ \A c \in 1..MaxInFlight : calls[c].pc # "del")
        => redis[w] = EmptyHash

(* C5: at most one session is active per wallet: a second initiate does   *)
(* not succeed while the first session is neither reconstructed nor       *)
(* expired.                                                               *)
C5_OneActiveSession ==
    \A w \in Wallets : (log[w] = <<>> /\ now < SessionTTL) => initiated[w] <= 1

(* C6: a submission that arrives once the lifetime of the session has run *)
(* out below the threshold is not accepted.                               *)
C6_NoAcceptAfterExpiry ==
    (response.op = "submit" /\ response.late) => response.result # "Ok"

(* C7: a call whose reconstruction fails leaves no share of the wallet in *)
(* the store when it returns.                                             *)
C7_FailedReconstructionClears ==
    [][\A c \in 1..MaxInFlight :
          (/\ calls[c].pc = "hvals" /\ calls'[c] = Idle
           /\ response'.branch = "failed")
          => redis'[calls[c].wallet_id] = EmptyHash]_vars

(* C8: the call that reconstructed the nsec leaves no share of the wallet *)
(* in the store when it returns.                                          *)
C8_ReconstructionClears ==
    [][\A c \in 1..MaxInFlight :
          (calls[c].pc = "del" /\ calls'[c] = Idle)
          => redis'[calls[c].wallet_id] = EmptyHash]_vars

C8_Witness ==
    /\ response.op = "submit" /\ response.branch = "reconstructed"
    /\ AllIdle
    /\ Len(log["w1"]) = 1
    /\ redis["w1"] = EmptyHash

(* C9: record, threshold check and clear of one call are not interleaved  *)
(* with another call's record: what a call is about to delete is what it  *)
(* counted.                                                               *)
C9_ClearDeletesWhatWasCounted ==
    \A c \in 1..MaxInFlight :
        calls[c].pc = "del" =>
            HVals(redis[calls[c].wallet_id]) = calls[c].collected_shares

(* C10: a submission whose envelope does not decrypt returns the error    *)
(* and changes neither the shares held nor the threshold progress.        *)
C10_DecryptFailureChangesNothing ==
    [][(/\ nRequests' = nRequests + 1 /\ calls' = calls
        /\ response'.op = "submit"
        /\ response'.msg = "Failed to decrypt share")
       => (/\ redis' = redis
           /\ submittedAs' = submittedAs
           /\ response'.result = "BadRequest")]_vars

C10_Witness ==
    /\ response.op = "submit"
    /\ response.msg = "Failed to decrypt share"
    /\ Cardinality(HKeys(redis["w1"])) = Threshold - 1

(* C17: for every threshold 1 <= k <= n and every secret, reconstruction  *)
(* from any k of the n shares of a split, handed over in any order,       *)
(* returns exactly the secret.                                            *)
C17_RoundTrip ==
    codec.pc = "done" => codec.out = Ok(<<codec.secret>>)

C17_Witness ==
    /\ codec.pc = "done"
    /\ codec.k = 3
    /\ codec.order = <<4, 1, 3>>
    /\ codec.secret = 5
    /\ codec.out = Ok(<<5>>)

(* C12: a send that fails for one helper does not abort initiate: a call  *)
(* that got as far as sending returns Ok and has sent a share to every    *)
(* helper but the one whose delivery failed.                              *)
C12_DeliveryFailureDoesNotAbort ==
    (response.op = "initiate" /\ response.result \notin {"BadRequest", "NotFound"})
    => /\ response.result = "Ok"
       /\ response.sent >= Len(response.helper_npubs) - 1

(* The index of the share a direct message carries, both layers opened. *)
ShareIndex(m) ==
    LET inner == nip04_decrypt(m.to, m.author, m.content).val
    IN hex_decode(nip04_decrypt(m.to, m.author, inner).val).val[1]

(* C13: whatever the length n of the helper list, a call whose sends all  *)
(* succeed gives every helper of the list exactly one share, the one      *)
(* whose index is the helper's position.                                  *)
C13_OneSharePerHelper ==
    (/\ response.op = "initiate" /\ nSplits = 1
     /\ response.result \notin {"BadRequest", "NotFound", "Internal"})
    => /\ response.result = "Ok"
       /\ \A i \in 1..Len(response.helper_npubs) :
              LET to_i == {m \in relay : m.to = from_bech32(response.helper_npubs[i]).val}
              IN /\ Cardinality(to_i) = 1
                 /\ \A m \in to_i : ShareIndex(m) = i

(* C20: with fewer helpers than the threshold (k > n) initiate fails and  *)
(* sends no share.                                                        *)
C20_InvalidThreshold ==
    (response.op = "initiate" /\ Len(response.helper_npubs) < Threshold)
    => (response.result # "Ok" /\ response.sent = 0)

(* C14: the call that reaches the threshold hands the caller a result     *)
(* that differs from the result of a call below the threshold.            *)
C14_RecoveredIsReported ==
    (response.op = "submit" /\ response.branch = "reconstructed")
    => SubmitShareResponse(response) #
           SubmitShareResponse(Reply("Ok", "Recovery share submitted successfully",
                                     "recorded", FALSE))

(* C15: the nsec of a wallet never appears in the log output.             *)
C15_NoSecretInLog ==
    \A w \in Wallets : \A i \in 1..Len(log[w]) : log[w][i] # encrypted_nostr_nsecs[w]

(* The shares of the n-th split of the nsec of w, as hex text.            *)
SplitTexts(w, n) ==
    LET shares == split_secret(<<encrypted_nostr_nsecs[w]>>, Threshold, TotalShares,
                               Randomness[n]).val
    IN {hex_encode(shares[i]) : i \in 1..TotalShares}

(* C16: no value held in the store is the plain text of a share.          *)
C16_SharesEncryptedAtRest ==
    \A w \in Wallets : \A f \in HKeys(redis[w]) :
        \A n \in 1..nSplits : redis[w][f] \notin SplitTexts(w, n)

(* The share indices among the values read from the hash.                 *)
ShareIndices(collected_shares) ==
    {hex_decode(collected_shares[i]).val[1] : i \in 1..Len(collected_shares)}

FromOneSplit(w, collected_shares) ==
    \E n \in 1..nSplits :
        \A i \in 1..Len(collected_shares) : collected_shares[i] \in SplitTexts(w, n)

(* C19: a call that reads shares of different splits reconstructs         *)
(* nothing.                                                               *)
C19_MixedSharesNeverReconstruct ==
    [][\A c \in 1..MaxInFlight :
          (/\ calls[c].pc = "hvals"
           /\ ~FromOneSplit(calls[c].wallet_id, HVals(redis[calls[c].wallet_id])))
          => log' = log]_vars

(* C11: every share held for a helper is a text that helper encrypted for *)
(* the coordinator; an envelope changed on the way is never recorded.     *)
C11_NoTamperedShareRecorded ==
    \A w \in {"w1"} : \A f \in HKeys(redis[w]) :
        redis[w][f] \in HelperTexts(w, from_bech32(f).val)

(* C22: initiating recovery for a wallet that has no protected secret    *)
(* fails with NotFound, sends no share to any helper and creates no      *)
(* session: such a wallet never has an Ok initiate, no direct message is *)
(* ever published under its key, and every initiate call for it returns  *)
(* NotFound having sent nothing.                                         *)
C22_NoSecretNoRecovery ==
    \A w \in Wallets :
        encrypted_nostr_nsecs[w] = NoRow =>
            /\ initiated[w] = 0
            /\ createdAt[w] = Never
            /\ \A m \in relay : m.author # WalletKey(w)
            /\ (response.op = "initiate" /\ response.wallet_id = w) =>
                   (response.result = "NotFound" /\ response.sent = 0)

C22_Witness ==
    /\ response.op = "initiate"
    /\ response.wallet_id = "w2"
    /\ response.result = "NotFound"
    /\ relay # {}

(* The wallet a step of a submit call works for. *)
StepWallet(c) == IF calls[c] = Idle THEN calls'[c].wallet_id ELSE calls[c].wallet_id

WalletsIndependentStep ==
    /\ \A c \in 1..MaxInFlight :
          calls'[c] # calls[c] =>
              \A b \in Wallets \ {StepWallet(c)} :
                  /\ redis'[b] = redis[b]
                  /\ log'[b] = log[b]
                  /\ submittedAs'[b] = submittedAs[b]
    /\ (calls' = calls) => (redis' = redis /\ log' = log)
    /\ (nRequests' # nRequests /\ response'.op = "initiate") =>
          \A b \in Wallets \ {response'.wallet_id} :
              /\ initiated'[b] = initiated[b]
              /\ createdAt'[b] = createdAt[b]
              /\ \A m \in relay' \ relay : m.author # WalletKey(b)

(* C21: recovery flows of different wallets are independent: a step of a *)
(* submission for wallet a leaves the shares, the reconstructions and    *)
(* the submitters of every other wallet as they were, a request that     *)
(* fails at once changes no hash, and an initiate call for wallet a      *)
(* leaves the sessions and the messages of every other wallet alone.     *)
C21_WalletsIndependent == [][WalletsIndependentStep]_vars

C21_Witness ==
    /\ redis["w1"] # EmptyHash
    /\ redis["w2"] # EmptyHash
    /\ log["w1"] # <<>>

(* C23: a Breez payment is never reprocessed, under any interleaving of  *)
(* webhooks that carry the same payment hash: a transaction is completed *)
(* and its wallet credited at most once.                                 *)
C23_NoReprocessing == \A id \in TxIds : credited[id] <= 1

(* A step of the UPDATEs of the process_breez_payment call in slot c. *)
BreezUpdateStep(c) == tasks[c].pc = "breez_update" /\ tasks'[c] # tasks[c]

(* A step of the SELECT of a process_breez_payment call. *)
BreezSelectStep ==
    /\ nCalls' # nCalls
    /\ \/ outcome'.op = "breez" /\ tasks' = tasks
       \/ \E c \in 1..MaxInFlight : tasks[c] = Idle /\ tasks'[c].pc = "breez_update"

BreezFrameStep ==
    /\ BreezSelectStep => balance_sats' = balance_sats
    /\ \A c \in 1..MaxInFlight :
          BreezUpdateStep(c) =>
              LET t == tasks[c]
              IN IF t.status = "PAID" /\ transactions[t.id].status # "completed"
                 THEN balance_sats' =
                          [balance_sats EXCEPT ![transactions[t.id].wallet_id] =
                              @ + t.amount_sats - t.fee_sats]
                 ELSE balance_sats' = balance_sats

(* C24: process_breez_payment changes a balance only when the status is  *)
(* PAID and the transaction that matches the hash is not yet completed,  *)
(* and then adds exactly amount_sats - fee_sats to the balance of that   *)
(* transaction's wallet; in every other case all balances stay as they   *)
(* were.                                                                 *)
C24_BreezFrame == [][BreezFrameStep]_vars

(* The pending deposits recorded for a Paystack reference. *)
PendingDeposits(reference) ==
    {id \in TxIds : /\ transactions[id] # NoTx
                    /\ transactions[id].tx_type = "fiat_deposit"
                    /\ transactions[id].status = "pending"
                    /\ transactions[id].external_id = reference}

(* C25: a charge.success delivered more than once with the same          *)
(* reference leaves at most one pending fiat_deposit transaction of that *)
(* reference.                                                            *)
C25_OneDepositPerReference ==
    \A r \in PaymentHashes : Cardinality(PendingDeposits(r)) <= 1

(* The payments sent for a transaction. *)
PaymentsFor(id) == {i \in 1..Len(payments) : payments[i].id = id}

(* C26: manual_release_funds sends at most one payment for a             *)
(* transaction, under any interleaving of release calls, and a call that *)
(* finds another status than pending or admin_hold has returned          *)
(* BadRequest.                                                           *)
C26_OneReleasePerTransaction ==
    /\ \A id \in TxIds : Cardinality(PaymentsFor(id)) <= 1
    /\ (outcome.op = "release" /\ outcome.note = "not in a state for manual release") =>
           outcome.result = "BadRequest"

(* The step in which the call in slot c runs ussd_send_bitcoin. *)
SendStep(c) == ussd[c].pc = "send" /\ ussd'[c].pc = "del"

ConditionalDebitStep ==
    \A c \in 1..MaxInFlight :
        SendStep(c) =>
            LET wallet == WalletOfPhone(ussd[c].phone_number)
                amount == ussd[c].amount
                result == sends'[Len(sends')].result
            IN /\ wallet.ok =>
                      IF balance_sats[wallet.val] >= amount
                      THEN /\ balance_sats' = [balance_sats EXCEPT ![wallet.val] = @ - amount]
                           /\ result = "Ok"
                      ELSE /\ balance_sats' = balance_sats
                           /\ result = "BadRequest"
               /\ ~wallet.ok => balance_sats' = balance_sats
               /\ \A w \in Wallets : balance_sats'[w] >= 0

(* C27: ussd_send_bitcoin takes the amount off the balance only if the   *)
(* balance is at least the amount, in the one step of the update, so     *)
(* that under any interleaving of sends from one wallet the balance      *)
(* never goes below zero; a send the balance does not cover fails with   *)
(* BadRequest and leaves every balance as it was.                        *)
C27_ConditionalDebit == [][ConditionalDebitStep]_vars

C27_Witness ==
    /\ balance_sats["w1"] = 0
    /\ \E i, j \in 1..Len(sends) :
          /\ i < j
          /\ sends[i].result = "Ok" /\ sends[i].amount_sats > 0
          /\ sends[j].result = "BadRequest" /\ sends[j].amount_sats > 0

(* C28: a USSD send never increases a wallet balance, whatever amount    *)
(* was entered, zero and negative amounts included.                      *)
C28_SendNeverIncreases ==
    [][\A c \in 1..MaxInFlight :
           SendStep(c) => \A w \in Wallets : balance_sats'[w] <= balance_sats[w]]_vars

(* The session key holds the name of the state. *)
InState(value, state) == value.type = "string" /\ value.val = as_str(state)

(* An input of the form 'amount address' with a number for the amount. *)
WellFormed(text) == Len(splitn2(text)) = 2 /\ parse_i64(splitn2(text)[1]).ok

MenuStep ==
    /\ \A i \in 1..Len(sends) :
          sends[i].state = "ConfirmSendBitcoin" /\ sends[i].text = <<"1">>
    /\ \A sid \in SessionIds :
          /\ (InState(sessions'[sid], "ConfirmSendBitcoin")
                /\ ~InState(sessions[sid], "ConfirmSendBitcoin")) =>
                 \E c \in 1..MaxInFlight :
                     /\ ussd[c].pc = "set" /\ ussd'[c].pc = "expire"
                     /\ ussd[c].session_id = sid
                     /\ ussd[c].state = "SendBitcoin" /\ WellFormed(ussd[c].text)
          /\ (InState(sessions'[sid], "SendBitcoin")
                /\ ~InState(sessions[sid], "SendBitcoin")) =>
                 \E c \in 1..MaxInFlight :
                     /\ ussd[c].pc = "set" /\ ussd'[c].pc = "expire"
                     /\ ussd[c].session_id = sid
                     /\ \/ ussd[c].state = "MainMenu" /\ ussd[c].text = <<"2">>
                        \/ ussd[c].state = "SendBitcoin" /\ ~WellFormed(ussd[c].text)
    /\ \A c \in 1..MaxInFlight :
          (ussd[c] # Idle /\ ussd'[c] # ussd[c] /\ ussd[c].state = "ConfirmSendBitcoin") =>
              /\ ussd[c].text # <<"1">> => sends' = sends
              /\ ussd[c].text = <<"0">> =>
                     (ussd[c].pc = "del" => sessions'[ussd[c].session_id] = Absent)
              /\ ussd[c].text \notin {<<"1">>, <<"0">>} =>
                     /\ ussd[c].pc = "expire"
                     /\ \A sid \in SessionIds :
                           sessions'[sid] = SessionExpire(sessions[sid], USSD_SESSION_TTL_SECONDS)

(* C29: Bitcoin is sent only by the input '1' in ConfirmSendBitcoin, and *)
(* that state is set only by a request in SendBitcoin with a well-formed *)
(* 'amount address' input, SendBitcoin itself only by option 2 of the    *)
(* main menu (or kept by an ill-formed input in SendBitcoin); in         *)
(* ConfirmSendBitcoin the input '0' deletes the session without sending, *)
(* and any other input sends nothing and leaves the state as it is.      *)
C29_SendOnlyOnConfirm == [][MenuStep]_vars

C29_Witness ==
    /\ sends # <<>>
    /\ sends[1].state = "ConfirmSendBitcoin"
    /\ sends[1].text = <<"1">>
    /\ outcome.op = "ussd" /\ outcome.state = "ConfirmSendBitcoin"

ConfirmStep ==
    /\ \A c \in 1..MaxInFlight :
          (/\ ussd[c] # Idle /\ ussd'[c] = Idle
           /\ ussd[c].state = "SendBitcoin" /\ WellFormed(ussd[c].text)) =>
              LET value == sessions'[ussd[c].session_id]
              IN /\ outcome'.result = "Ok"
                 /\ InState(value, "ConfirmSendBitcoin")
                 /\ PromptOf(value) = <<ussd[c].amount, ussd[c].address>>
    /\ \A c \in 1..MaxInFlight :
          SendStep(c) =>
              <<ussd[c].amount, ussd[c].address>> = ussd[c].prompt

(* C30: the amount and the address entered in SendBitcoin are what the   *)
(* confirmation uses: a request in SendBitcoin with a well-formed input  *)
(* returns with the session in ConfirmSendBitcoin and both values kept   *)
(* with it, and the input '1' then sends exactly that amount to exactly  *)
(* that address.                                                         *)
C30_ConfirmedIsSent == [][ConfirmStep]_vars


----------------------------------------------------------------------------
(* C34: initiate validates before it sends: when it returns BadRequest    *)
(* because a helper key of the list is invalid, no share was sent to any  *)
(* helper of the list.                                                    *)
C34_InvalidKeyNothingSent ==
    (/\ response.op = "initiate"
     /\ response.result = "BadRequest"
     /\ Uuid_parse_str(response.wallet_id).ok)
        => response.sent = 0

----------------------------------------------------------------------------
----------------------------------------------------------------------------
(* C31: a confirmed send is executed at most once per session: of the     *)
(* requests that deliver the input "1" for one session id, no two have    *)
(* both called ussd_send_bitcoin on the session data before it was        *)
(* cleared.                                                               *)
C31_AtMostOneSendPerSession ==
    \A sid \in SessionIds :
        Cardinality({c \in DOMAIN ussd : /\ ussd[c].pc = "del"
                                         /\ ussd[c].text = <<"1">>
                                         /\ ussd[c].session_id = sid}) <= 1

----------------------------------------------------------------------------
(* C32: session state lives for 3 minutes. A request that is handled      *)
(* successfully and leaves the session key in the store leaves it with a  *)
(* time to live of 180 seconds; once no request of the session is in      *)
(* flight, a key that exists has that time to live; and a request that    *)
(* finds no key (it expired or was deleted) is handled from state Start.  *)
SessionLifeStep ==
    /\ \A c \in DOMAIN ussd :
           (/\ ussd[c].pc = "expire"
            /\ ussd'[c] = Idle
            /\ outcome'.result = "Ok"
            /\ sessions'[ussd[c].session_id].type # "none")
               => sessions'[ussd[c].session_id].ttl = 3 * 60
    /\ \A sid \in SessionIds :
           (/\ \A c \in DOMAIN ussd : ussd'[c] = Idle
            /\ sessions'[sid].type # "none")
               => sessions'[sid].ttl = 3 * 60
    /\ \A c \in DOMAIN ussd :
           (/\ ussd[c] = Idle
            /\ ussd'[c] # Idle
            /\ sessions[ussd'[c].session_id] = Absent)
               => ussd'[c].state = "Start"

C32_SessionLivesThreeMinutes == [][SessionLifeStep]_vars

(* A request returned Ok and left the key with its time to live; the key  *)
(* expired; the next request is being handled from Start.                 *)
C32_Witness ==
    /\ outcome.op = "ussd"
    /\ outcome.result = "Ok"
    /\ outcome.state = "MainMenu"
    /\ \E c \in DOMAIN ussd :
           /\ ussd[c].pc = "set"
           /\ ussd[c].state = "Start"
    /\ \A sid \in SessionIds : sessions[sid] = Absent

====
